---------------------------- MODULE Spec2Model ----------------------------
(***************************************************************************)
(* TestbedSampleContract (src/src/__test__/test-contract.smart.c): the     *)
(* dispatch loop of main() and its four handlers, over the host runtime    *)
(* the contract is compiled against (transaction queue, ledger, key-value  *)
(* store).  The host primitives are not part of the contract's source and  *)
(* are modelled from the specification's sections 4.1 - 4.3 and 6.         *)
(***************************************************************************)
EXTENDS Integers, Sequences, FiniteSets, TLC

(***************************************************************************)
(* Program constants.                                                      *)
(***************************************************************************)
FORWARD_PERCENTAGE == 1
UPDATE_PERCENTAGE == 2
SET_MAP_VALUE == 3
PULL_FUNDS == 4
MAP_KEY_EXAMPLE == 1

(***************************************************************************)
(* Bounds of the model.  A long of the contract is a signed 64 bit word;   *)
(* the model keeps the two's complement arithmetic and scales the width    *)
(* down to LongBits so that every product stays inside TLC's integers.     *)
(***************************************************************************)
LongBits == 16
MaxTx == 3

Modulus == 2 ^ LongBits
MaxLong == (Modulus \div 2) - 1
MinLong == -(Modulus \div 2)

(***************************************************************************)
(* Accounts and assets of the ledger.  Ids are opaque integers.            *)
(***************************************************************************)
Contract == 10
Creator == 11
Other == 12
Recipient == 13
Accounts == {Contract, Creator, Other, Recipient}

Native == 0
Token == 7
Assets == {Native, Token}

(***************************************************************************)
(* Arithmetic of a long: wrap-around multiplication, truncating division.  *)
(***************************************************************************)
WrapLong(x) ==
    LET m == x % Modulus
    IN  IF m > MaxLong THEN m - Modulus ELSE m

Quot(a, b) == IF a >= 0 THEN a \div b ELSE -((-a) \div b)

(***************************************************************************)
(* The state.                                                              *)
(*   percentage, currentTx : the contract's globals                        *)
(*   kv                    : the key-value store, only written entries     *)
(*   balance               : the ledger, account -> asset -> amount        *)
(*   queue, cursor         : the transactions that arrived, and how many   *)
(*                           of them getNextTx has returned                *)
(*   pc                    : "idle" (between blocks), "loop" (at the while *)
(*                           of main), "switch" (a transaction was read)   *)
(*   pre, dispatched, completed, lastFault : history variables: the state  *)
(*                           when the current transaction was read, the    *)
(*                           ids handed to the switch so far, the ids      *)
(*                           whose case has ended, the fault of the last   *)
(*                           handler                                       *)
(*   probe                 : the operands and the result of one call of    *)
(*                           forwardAmount or transfer, in the             *)
(*                           specifications that exercise these functions  *)
(*                           alone; "none" while the contract runs         *)
(***************************************************************************)
VARIABLES percentage, currentTx, kv, balance, queue, cursor, pc,
          pre, dispatched, completed, lastFault, probe

vars == <<percentage, currentTx, kv, balance, queue, cursor, pc,
          pre, dispatched, completed, lastFault, probe>>

(***************************************************************************)
(* Ledger (specification 4.2).                                             *)
(***************************************************************************)
balanceOf(bal, account, assetId) == bal[account][assetId]

Failed(bal, err) == [ok |-> FALSE, err |-> err, bal |-> bal]

\* debit that does not compare the amount with the balance.
debitUnchecked(bal, account, assetId, amount) ==
    IF balanceOf(bal, account, assetId) - amount > MaxLong
    THEN Failed(bal, "Overflow")
    ELSE [ok |-> TRUE, err |-> "none",
          bal |-> [bal EXCEPT ![account][assetId] = @ - amount]]

debit(bal, account, assetId, amount) ==
    IF balanceOf(bal, account, assetId) < amount
    THEN Failed(bal, "InsufficientFunds")
    ELSE IF balanceOf(bal, account, assetId) - amount > MaxLong
    THEN Failed(bal, "Overflow")
    ELSE [ok |-> TRUE, err |-> "none",
          bal |-> [bal EXCEPT ![account][assetId] = @ - amount]]

credit(bal, account, assetId, amount) ==
    IF \/ balanceOf(bal, account, assetId) + amount > MaxLong
       \/ balanceOf(bal, account, assetId) + amount < 0
    THEN Failed(bal, "Overflow")
    ELSE [ok |-> TRUE, err |-> "none",
          bal |-> [bal EXCEPT ![account][assetId] = @ + amount]]

\* transfer that credits the receiver without debiting the payer.
transferCreditOnly(bal, from, to, assetId, amount) ==
    credit(bal, to, assetId, amount)

\* transfer that keeps the debit when the credit fails.
transferNoRollback(bal, from, to, assetId, amount) ==
    LET d == debit(bal, from, assetId, amount)
    IN  IF ~d.ok THEN d
        ELSE LET c == credit(d.bal, to, assetId, amount)
             IN  IF ~c.ok THEN Failed(d.bal, c.err) ELSE c

transfer(bal, from, to, assetId, amount) ==
    LET d == debit(bal, from, assetId, amount)
    IN  IF ~d.ok THEN d
        ELSE LET c == credit(d.bal, to, assetId, amount)
             IN  IF ~c.ok THEN Failed(bal, c.err) ELSE c

(***************************************************************************)
(* Key-value store (specification 4.3).                                    *)
(***************************************************************************)
getMapValue(store, key1, key2) ==
    IF <<key1, key2>> \in DOMAIN store THEN store[<<key1, key2>>] ELSE 0

setMapValue(store, key1, key2, value) ==
    [k \in (DOMAIN store) \cup {<<key1, key2>>} |->
        IF k = <<key1, key2>> THEN value ELSE store[k]]

(***************************************************************************)
(* Host primitives of the contract (specification 6).                      *)
(***************************************************************************)
getCreator == Creator

getSender(txId) == (CHOOSE t \in {queue[i] : i \in 1..Len(queue)} : t.txId = txId).sender

getAmount(txId) == (CHOOSE t \in {queue[i] : i \in 1..Len(queue)} : t.txId = txId).amount

readMessage(txId) == (CHOOSE t \in {queue[i] : i \in 1..Len(queue)} : t.txId = txId).message

getAssetBalance(assetId) == balanceOf(balance, Contract, assetId)

sendAmount(amount, recipientId) == transfer(balance, Contract, recipientId, Native, amount)

sendBalance(recipientId) ==
    transfer(balance, Contract, recipientId, Native, balanceOf(balance, Contract, Native))

sendQuantity(amount, assetId, recipientId) ==
    transfer(balance, Contract, recipientId, assetId, amount)

(***************************************************************************)
(* The transactions the host may deliver.  message is the four longs       *)
(* readMessage copies into currentTx.message: the method code, then the    *)
(* arguments.  OverAmount is the least attached amount whose product with  *)
(* 100 leaves the range of a long (it wraps to a negative long), BigAmount *)
(* one whose product with 100 wraps to a positive long.                    *)
(***************************************************************************)
Senders == {Creator, Other}
BigAmount == (Modulus \div 100) + 45
OverAmount == (MaxLong \div 100) + 1
Msg(code, a1, a2) == <<code, a1, a2, 0>>

Tx(sender, amount, message) == [sender |-> sender, amount |-> amount, message |-> message]

ForwardInputs ==
    {Tx(Other, a, Msg(FORWARD_PERCENTAGE, Recipient, 0)) :
        a \in {33, 100, OverAmount, BigAmount}}
    \cup {Tx(Creator, 100, Msg(FORWARD_PERCENTAGE, Recipient, 0))}
UpdateInputs ==
    {Tx(Creator, 0, Msg(UPDATE_PERCENTAGE, v, 0)) : v \in {-5, 33, 150}}
    \cup {Tx(Other, 0, Msg(UPDATE_PERCENTAGE, 150, 0))}
SetMapInputs ==
    {Tx(Other, 0, Msg(SET_MAP_VALUE, 1, v)) : v \in {7, 9}}
    \cup {Tx(Creator, 0, Msg(SET_MAP_VALUE, 2, 7))}
PullInputs ==
    {Tx(s, 0, Msg(PULL_FUNDS, a, 0)) : s \in Senders, a \in Assets}
UnknownInputs ==
    {Tx(Other, 100, Msg(99, Recipient, 7))}
TxInputs == ForwardInputs \cup UpdateInputs \cup SetMapInputs \cup PullInputs \cup UnknownInputs

InitPercentages == {0, 20}

InitBalance ==
    [a \in Accounts |-> [s \in Assets |->
        IF s = Native
        THEN (IF a = Contract THEN 500 ELSE IF a = Recipient THEN 0 ELSE 2000)
        ELSE (IF a = Contract THEN 40 ELSE 0)]]

Snapshot == [percentage |-> percentage, kv |-> kv, balance |-> balance]

Init ==
    /\ percentage \in InitPercentages
    /\ currentTx = [txId |-> 0, sender |-> 0, message |-> <<0, 0, 0, 0>>]
    /\ kv = <<>>
    /\ balance = InitBalance
    /\ queue = <<>>
    /\ cursor = 0
    /\ pc = "idle"
    /\ pre = [percentage |-> percentage, kv |-> kv, balance |-> balance]
    /\ dispatched = <<>>
    /\ completed = <<>>
    /\ lastFault = "none"
    /\ probe = "none"

(***************************************************************************)
(* The host: a transaction arrives for the contract while it is idle; its  *)
(* attached amount moves from the sender to the contract on arrival, so    *)
(* the contract's balance holds the amounts of all transactions of the     *)
(* block before main reads the first of them.  Ids are assigned in arrival *)
(* order, starting at 1 (0 is the sentinel).                               *)
(***************************************************************************)
ReceiveFrom(inputs) ==
    /\ pc = "idle"
    /\ Len(queue) < MaxTx
    /\ \E t \in inputs :
         LET r == transfer(balance, t.sender, Contract, Native, t.amount)
         IN  /\ r.ok
             /\ balance' = r.bal
             /\ queue' = Append(queue, [txId |-> Len(queue) + 1, sender |-> t.sender,
                                         amount |-> t.amount, message |-> t.message])
    /\ UNCHANGED <<percentage, currentTx, kv, cursor, pc, pre, dispatched, completed, lastFault>>
    /\ UNCHANGED probe

Receive == ReceiveFrom(TxInputs)

(***************************************************************************)
(* Idle -> Processing: the block's transactions are available, main runs.  *)
(***************************************************************************)
Activate ==
    /\ pc = "idle"
    /\ cursor < Len(queue)
    /\ pc' = "loop"
    /\ UNCHANGED <<percentage, currentTx, kv, balance, queue, cursor, pre, dispatched,
                 completed, lastFault>>
    /\ UNCHANGED probe

(***************************************************************************)
(* main, lines 38 - 40: the head of the while loop.                        *)
(***************************************************************************)
getNextTx == IF cursor < Len(queue) THEN queue[cursor + 1].txId ELSE 0

GetNextTx ==
    /\ pc = "loop"
    /\ LET id == getNextTx
       IN  IF id # 0
           THEN /\ currentTx' = [txId |-> id, sender |-> getSender(id),
                                 message |-> readMessage(id)]
                /\ cursor' = cursor + 1
                /\ pc' = "switch"
                /\ pre' = Snapshot
                /\ dispatched' = Append(dispatched, id)
                /\ lastFault' = "none"
           ELSE /\ currentTx' = [currentTx EXCEPT !.txId = 0]
                /\ pc' = "idle"
                /\ UNCHANGED <<cursor, pre, dispatched, lastFault>>
    /\ UNCHANGED <<percentage, kv, balance, queue, completed>>
    /\ UNCHANGED probe

(***************************************************************************)
(* Where a case leaves control: break returns to the while of main; a      *)
(* fault enters catch(), which jumps to main.  A handler that sends        *)
(* nothing leaves the ledger as it is.                                     *)
(***************************************************************************)
\* A case ending in return instead of break: main is left after the first
\* transaction.
breakAsReturn == "idle"

break == "loop"

\* catch() resuming at the switch instead of jumping to main: the faulted
\* transaction is handled again.
catchAsRetry == "switch"

\* catch that ends the activation instead of jumping to main.
catchAsReturn == "idle"

catch == "loop"

NoSend == [ok |-> TRUE, err |-> "none", bal |-> balance]

Handled(r) ==
    /\ balance' = r.bal
    /\ lastFault' = r.err
    /\ pc' = IF r.ok THEN break ELSE catch
    /\ completed' = Append(completed, currentTx.txId)

(***************************************************************************)
(* forwardPercentage, lines 101 - 107: the result of its send.             *)
(***************************************************************************)
\* The product sent as it is, without the division by 100.
forwardAmountNoDivide(amount, pct) == WrapLong(amount * pct)

forwardAmount(amount, pct) == Quot(WrapLong(amount * pct), 100)

forwardPercentage(recipientId) ==
    IF percentage = 0
    THEN NoSend
    ELSE sendAmount(forwardAmount(getAmount(currentTx.txId), percentage), recipientId)

CaseForwardPercentage ==
    /\ pc = "switch"
    /\ currentTx.message[1] = FORWARD_PERCENTAGE
    /\ Handled(forwardPercentage(currentTx.message[2]))
    /\ UNCHANGED <<percentage, currentTx, kv, queue, cursor, pre, dispatched>>
    /\ UNCHANGED probe

(***************************************************************************)
(* updatePercentage, lines 85 - 99: the percentage it leaves.              *)
(***************************************************************************)
\* updatePercentage without the upper clamp (lines 90 - 92 left out).
updatePercentageNoUpper(newPercentage) ==
    IF currentTx.sender # getCreator THEN percentage
    ELSE IF newPercentage < 0 THEN 0
    ELSE newPercentage

\* updatePercentage without the lower clamp (lines 93 - 95 left out).
updatePercentageNoLower(newPercentage) ==
    IF currentTx.sender # getCreator THEN percentage
    ELSE IF newPercentage > 100 THEN 100
    ELSE newPercentage

\* updatePercentage without the creator check (lines 86 - 88 left out).
updatePercentageNoCheck(newPercentage) ==
    IF newPercentage > 100 THEN 100
    ELSE IF newPercentage < 0 THEN 0
    ELSE newPercentage

updatePercentage(newPercentage) ==
    IF currentTx.sender # getCreator THEN percentage
    ELSE IF newPercentage > 100 THEN 100
    ELSE IF newPercentage < 0 THEN 0
    ELSE newPercentage

CaseUpdatePercentage ==
    /\ pc = "switch"
    /\ currentTx.message[1] = UPDATE_PERCENTAGE
    /\ percentage' = updatePercentage(currentTx.message[2])
    /\ Handled(NoSend)
    /\ UNCHANGED <<currentTx, kv, queue, cursor, pre, dispatched>>
    /\ UNCHANGED probe

(***************************************************************************)
(* case SET_MAP_VALUE, lines 50 - 53: the store it leaves.                 *)
(***************************************************************************)
\* case SET_MAP_VALUE behind a creator check, as pullFunds and
\* updatePercentage have.
caseSetMapValueCreatorOnly(message) ==
    IF currentTx.sender # getCreator THEN kv
    ELSE setMapValue(kv, MAP_KEY_EXAMPLE, message[2], message[3])

\* case SET_MAP_VALUE with the message slots of key and value exchanged.
caseSetMapValueSwapped(message) ==
    setMapValue(kv, MAP_KEY_EXAMPLE, message[3], message[2])

\* case SET_MAP_VALUE keyed by the method code in place of MAP_KEY_EXAMPLE.
caseSetMapValueKeyedByCode(message) ==
    setMapValue(kv, message[1], message[2], message[3])

caseSetMapValue(message) ==
    setMapValue(kv, MAP_KEY_EXAMPLE, message[2], message[3])

CaseSetMapValue ==
    /\ pc = "switch"
    /\ currentTx.message[1] = SET_MAP_VALUE
    /\ kv' = caseSetMapValue(currentTx.message)
    /\ Handled(NoSend)
    /\ UNCHANGED <<percentage, currentTx, queue, cursor, pre, dispatched>>
    /\ UNCHANGED probe

(***************************************************************************)
(* pullFunds, lines 73 - 83: the result of its send.                       *)
(***************************************************************************)
\* pullFunds without the creator check (lines 74 - 76 left out).
pullFundsNoCheck(tokenId) ==
    IF tokenId = 0 THEN sendBalance(getCreator)
    ELSE sendQuantity(getAssetBalance(tokenId), tokenId, getCreator)

\* pullFunds sending the native balance whatever the token (line 81 as line 78).
pullFundsNativeOnly(tokenId) ==
    IF currentTx.sender # getCreator THEN NoSend
    ELSE sendBalance(getCreator)

pullFunds(tokenId) ==
    IF currentTx.sender # getCreator THEN NoSend
    ELSE IF tokenId = 0 THEN sendBalance(getCreator)
    ELSE sendQuantity(getAssetBalance(tokenId), tokenId, getCreator)

CasePullFunds ==
    /\ pc = "switch"
    /\ currentTx.message[1] = PULL_FUNDS
    /\ Handled(pullFunds(currentTx.message[2]))
    /\ UNCHANGED <<percentage, currentTx, kv, queue, cursor, pre, dispatched>>
    /\ UNCHANGED probe

(***************************************************************************)
(* The switch of main has no default: any other code matches no case.      *)
(***************************************************************************)
KnownCodes == {FORWARD_PERCENTAGE, UPDATE_PERCENTAGE, SET_MAP_VALUE, PULL_FUNDS}

\* A switch whose last case also takes every other code (default: before
\* case SET_MAP_VALUE).
NoCaseAsSetMapValue ==
    /\ pc = "switch"
    /\ currentTx.message[1] \notin KnownCodes
    /\ kv' = caseSetMapValue(currentTx.message)
    /\ Handled(NoSend)
    /\ UNCHANGED <<percentage, currentTx, queue, cursor, pre, dispatched>>
    /\ UNCHANGED probe

NoCase ==
    /\ pc = "switch"
    /\ currentTx.message[1] \notin KnownCodes
    /\ Handled(NoSend)
    /\ UNCHANGED <<percentage, currentTx, kv, queue, cursor, pre, dispatched>>
    /\ UNCHANGED probe

Next ==
    \/ Receive
    \/ Activate
    \/ GetNextTx
    \/ CaseForwardPercentage
    \/ CaseUpdatePercentage
    \/ CaseSetMapValue
    \/ CasePullFunds
    \/ NoCase

Spec == Init /\ [][Next]_vars

(***************************************************************************)
(* Once activated the machine executes the contract's instructions until   *)
(* main returns: every step of main is taken when it can be.  Nothing      *)
(* obliges the host to deliver a transaction or to start a block.  The     *)
(* specification with fairness delivers one transaction of each kind,      *)
(* among them the forwards that can fault.                                 *)
(***************************************************************************)
MainStep ==
    \/ GetNextTx
    \/ CaseForwardPercentage
    \/ CaseUpdatePercentage
    \/ CaseSetMapValue
    \/ CasePullFunds
    \/ NoCase

FairInputs ==
    {Tx(Other, 100, Msg(FORWARD_PERCENTAGE, Recipient, 0)),
     Tx(Other, BigAmount, Msg(FORWARD_PERCENTAGE, Recipient, 0)),
     Tx(Creator, 0, Msg(UPDATE_PERCENTAGE, 150, 0)),
     Tx(Other, 0, Msg(SET_MAP_VALUE, 1, 7)),
     Tx(Creator, 0, Msg(PULL_FUNDS, Native, 0)),
     Tx(Other, 100, Msg(99, Recipient, 7))}

ReceiveFair == ReceiveFrom(FairInputs)

FairNext ==
    \/ ReceiveFair
    \/ Activate
    \/ MainStep

FairSpec == Init /\ [][FairNext]_vars /\ WF_vars(MainStep)

(***************************************************************************)
(* Vocabulary of the properties.  A transaction has just been handled when *)
(* control is back at the while of main with that transaction still in     *)
(* currentTx; pre is the state it was dispatched in.                       *)
(***************************************************************************)
JustDispatched == pc = "loop" /\ currentTx.txId # 0
Code == currentTx.message[1]
Attached == getAmount(currentTx.txId)
Gain(account, assetId) == balance[account][assetId] - pre.balance[account][assetId]
Min(a, b) == IF a < b THEN a ELSE b
Max(a, b) == IF a > b THEN a ELSE b
Floor(a, b) == a \div b

\* C1 (as stated): an UpdatePercentage(v) of the creator stores
\* min(100, max(0, v)); a ForwardPercentage with attached amount 100 handled
\* at the percentage UpdatePercentage(150) stores transfers exactly 100 to the
\* recipient, and one handled at the percentage UpdatePercentage(-5) stores
\* transfers nothing.
C1_AsStated ==
    JustDispatched =>
        /\ (Code = UPDATE_PERCENTAGE /\ currentTx.sender = Creator)
              => percentage = Min(100, Max(0, currentTx.message[2]))
        /\ (Code = FORWARD_PERCENTAGE /\ pre.percentage = Min(100, Max(0, 150))
              /\ Attached = 100)
              => /\ Gain(currentTx.message[2], Native) = 100
                 /\ Gain(Contract, Native) = -100
        /\ (Code = FORWARD_PERCENTAGE /\ pre.percentage = Min(100, Max(0, -5)))
              => balance = pre.balance

\* A creator's UpdatePercentage(v) is somewhere among the transactions handled
\* before the current one.
UpdatedBefore(v) ==
    \E i \in 1..(cursor - 1) :
        /\ queue[i].sender = Creator
        /\ queue[i].message[1] = UPDATE_PERCENTAGE
        /\ queue[i].message[2] = v

\* C1 (amended): an UpdatePercentage(v) of the creator stores
\* min(100, max(0, v)); a ForwardPercentage with attached amount 100 handled
\* at the percentage UpdatePercentage(150) stores transfers exactly 100 to the
\* recipient when the contract's native balance is at least 100 at that
\* point, and otherwise faults with InsufficientFunds and moves nothing; one
\* handled at the percentage UpdatePercentage(-5) stores transfers nothing.
C1_ClampThenForward ==
    JustDispatched =>
        /\ (Code = UPDATE_PERCENTAGE /\ currentTx.sender = Creator)
              => percentage = Min(100, Max(0, currentTx.message[2]))
        /\ (Code = FORWARD_PERCENTAGE /\ pre.percentage = Min(100, Max(0, 150))
              /\ Attached = 100)
              => IF pre.balance[Contract][Native] >= 100
                 THEN /\ Gain(currentTx.message[2], Native) = 100
                      /\ Gain(Contract, Native) = -100
                      /\ lastFault = "none"
                 ELSE /\ balance = pre.balance
                      /\ lastFault = "InsufficientFunds"
        /\ (Code = FORWARD_PERCENTAGE /\ pre.percentage = Min(100, Max(0, -5)))
              => balance = pre.balance

\* C1 witness: the creator's UpdatePercentage(150) was handled, and a later
\* ForwardPercentage with attached amount 100 has just moved 100 to the
\* recipient.
C1_Witness ==
    /\ JustDispatched
    /\ Code = FORWARD_PERCENTAGE
    /\ Attached = 100
    /\ UpdatedBefore(150)
    /\ pre.percentage = 100
    /\ Gain(Recipient, Native) = 100

OnlyMoved(accounts, assetId) ==
    \A a \in Accounts : \A s \in Assets :
        (a \notin accounts \/ s # assetId) => balance[a][s] = pre.balance[a][s]

\* C3 (as stated, taken where the contract's balance covers the amount): a
\* ForwardPercentage from any sender does nothing when percentage = 0 and
\* otherwise sends exactly floor(attached amount * percentage / 100) of the
\* native asset from the contract to the recipient in message slot 1.
C3_AsStated ==
    (/\ JustDispatched
     /\ Code = FORWARD_PERCENTAGE
     /\ pre.balance[Contract][Native] >= Floor(Attached * pre.percentage, 100))
    => IF pre.percentage = 0
       THEN balance = pre.balance
       ELSE /\ Gain(currentTx.message[2], Native) = Floor(Attached * pre.percentage, 100)
            /\ Gain(Contract, Native) = -Floor(Attached * pre.percentage, 100)
            /\ OnlyMoved({Contract, currentTx.message[2]}, Native)

\* C4: a PullFunds whose sender is not the creator changes no balance,
\* whatever the asset id.
C4_PullByStrangerIsNoOp ==
    (JustDispatched /\ Code = PULL_FUNDS /\ currentTx.sender # Creator)
    => /\ balance = pre.balance
       /\ lastFault = "none"

\* C4 witness: a non-creator's PullFunds of the secondary asset has been
\* handled, after its PullFunds of the native asset, while the contract held
\* both.
C4_Witness ==
    /\ JustDispatched
    /\ Code = PULL_FUNDS
    /\ currentTx.sender = Other
    /\ currentTx.message[2] = Token
    /\ cursor > 1
    /\ queue[cursor - 1].sender = Other
    /\ queue[cursor - 1].message[1] = PULL_FUNDS
    /\ queue[cursor - 1].message[2] = Native
    /\ balance[Contract][Native] > 0
    /\ balance[Contract][Token] > 0

\* C5: a PullFunds(assetId) of the creator moves the contract's whole balance
\* of the selected asset to the creator and leaves the contract with 0 of it;
\* with assetId = 0 that is the native balance, otherwise the balance of that
\* asset, the native balances staying as they were.
C5_PullByCreatorTakesAll ==
    (JustDispatched /\ Code = PULL_FUNDS /\ currentTx.sender = Creator)
    => LET assetId == currentTx.message[2]
       IN  /\ balance[Contract][assetId] = 0
           /\ Gain(Creator, assetId) = pre.balance[Contract][assetId]
           /\ OnlyMoved({Contract, Creator}, assetId)
           /\ lastFault = "none"

\* C5 witness: the creator pulled the secondary asset and then the native
\* balance, each time a positive amount.
C5_Witness ==
    /\ JustDispatched
    /\ Code = PULL_FUNDS
    /\ currentTx.sender = Creator
    /\ currentTx.message[2] = Native
    /\ pre.balance[Contract][Native] > 0
    /\ Gain(Creator, Native) = pre.balance[Contract][Native]
    /\ balance[Contract][Token] = 0
    /\ balance[Creator][Token] = InitBalance[Contract][Token]

StateUnchanged ==
    /\ percentage = pre.percentage
    /\ kv = pre.kv
    /\ balance = pre.balance

\* C6 (as stated): a transaction whose sender is not the creator leaves the
\* percentage, every map entry and every balance as they were, whatever its
\* method code.
C6_AsStated ==
    (JustDispatched /\ currentTx.sender # Creator) => StateUnchanged

\* C6 (amended): of a transaction whose sender is not the creator, an
\* UpdatePercentage, a PullFunds and an unknown code change nothing; a
\* ForwardPercentage (no creator check) changes no more than native
\* balances, and a SetMapValue (no creator check) no more than the map.
C6_StrangerGuardedHandlersOnly ==
    (JustDispatched /\ currentTx.sender # Creator)
    => /\ Code \notin {FORWARD_PERCENTAGE, SET_MAP_VALUE} => StateUnchanged
       /\ Code = FORWARD_PERCENTAGE => (percentage = pre.percentage /\ kv = pre.kv)
       /\ Code = SET_MAP_VALUE => (percentage = pre.percentage /\ balance = pre.balance)

\* C6 witness: a non-creator's UpdatePercentage(150) has been handled and
\* the percentage is still the 20 of the deployment.
C6_Witness ==
    /\ JustDispatched
    /\ Code = UPDATE_PERCENTAGE
    /\ currentTx.sender = Other
    /\ currentTx.message[2] = 150
    /\ percentage = 20

\* C7: a SetMapValue from any sender stores message slot 2 at
\* (MAP_KEY_EXAMPLE, message slot 1).
C7_SetMapValueUnguarded ==
    (JustDispatched /\ Code = SET_MAP_VALUE)
    => /\ <<MAP_KEY_EXAMPLE, currentTx.message[2]>> \in DOMAIN kv
       /\ kv[<<MAP_KEY_EXAMPLE, currentTx.message[2]>>] = currentTx.message[3]

\* C7 witness: a non-creator has just overwritten the entry at key 1, which
\* held 7, by 9.
C7_Witness ==
    /\ JustDispatched
    /\ Code = SET_MAP_VALUE
    /\ currentTx.sender = Other
    /\ currentTx.message[2] = 1
    /\ getMapValue(pre.kv, MAP_KEY_EXAMPLE, 1) = 7
    /\ getMapValue(kv, MAP_KEY_EXAMPLE, 1) = 9

\* The number of transactions whose case has ended, and the value the most
\* recent SetMapValue among them wrote at (key1, key2): 0 when there is none.
NumHandled == IF pc = "switch" THEN cursor - 1 ELSE cursor

Writes(key1, key2) ==
    {i \in 1..NumHandled : /\ queue[i].message[1] = SET_MAP_VALUE
                           /\ key1 = MAP_KEY_EXAMPLE
                           /\ queue[i].message[2] = key2}

LastWritten(key1, key2) ==
    IF Writes(key1, key2) = {} THEN 0
    ELSE LET last == CHOOSE i \in Writes(key1, key2) :
                         \A j \in Writes(key1, key2) : j <= i
         IN  queue[last].message[3]

ProbedKeys == {MAP_KEY_EXAMPLE, 2} \X {1, 2, 7, 9, Recipient}

\* C8: in every state get(k1, k2) is the value of the most recent set at
\* (k1, k2), across transactions and blocks, and 0 for a pair never written;
\* repeating the set just made leaves the store as it is.
C8_StoreReturnsLastWrite ==
    /\ \A k \in ProbedKeys : getMapValue(kv, k[1], k[2]) = LastWritten(k[1], k[2])
    /\ DOMAIN kv \subseteq ProbedKeys
    /\ (JustDispatched /\ Code = SET_MAP_VALUE)
          => caseSetMapValue(currentTx.message) = kv

\* C8 witness: a first block wrote key 1 twice (7, then 9) and has ended, a
\* transaction of the next block is waiting; key 1 reads 9 and key 2, never
\* written, reads 0.
C8_Witness ==
    /\ pc = "idle"
    /\ cursor = 2
    /\ Len(queue) = 3
    /\ queue[1].message = Msg(SET_MAP_VALUE, 1, 7)
    /\ queue[2].message = Msg(SET_MAP_VALUE, 1, 9)
    /\ getMapValue(kv, MAP_KEY_EXAMPLE, 1) = 9
    /\ getMapValue(kv, MAP_KEY_EXAMPLE, 2) = 0

\* C9: a transaction whose method code is none of 1, 2, 3, 4 changes neither
\* the percentage nor the map nor any balance, raises no fault, and leaves
\* control at the head of the loop; in the switch it is never stuck.
C9_UnknownCodeIgnored ==
    /\ (JustDispatched /\ Code \notin KnownCodes)
          => (StateUnchanged /\ lastFault = "none" /\ pc = break)
    /\ (pc = "switch" /\ Code \notin KnownCodes) => ENABLED NoCase

\* C9 witness: a transaction with code 99 and an attached amount was
\* handled, and the transaction behind it in the queue has been handled
\* after it.
C9_Witness ==
    /\ JustDispatched
    /\ cursor > 1
    /\ queue[cursor - 1].message[1] = 99
    /\ queue[cursor - 1].amount > 0
    /\ completed = dispatched
    /\ Len(completed) = cursor

QueueIds(n) == [i \in 1..n |-> queue[i].txId]

\* C10: the transactions are handed to the switch in arrival order, each
\* once (the ids read so far are those of the first cursor transactions of
\* the queue, and no id occurs twice); a transaction is read only when the
\* case of the one before it has ended; and main returns to idle only from
\* the head of its loop, on the sentinel 0, when every queued transaction
\* has been handled.
C10_InOrderExactlyOnce ==
    /\ [](/\ dispatched = QueueIds(cursor)
          /\ \A i, j \in 1..Len(queue) : queue[i].txId = queue[j].txId => i = j
          /\ completed = QueueIds(NumHandled)
          /\ pc = "switch" => Len(completed) = Len(dispatched) - 1
          /\ pc # "switch" => completed = dispatched)
    /\ [][(pc # "idle" /\ pc' = "idle")
             => /\ pc = "loop"
                /\ currentTx'.txId = 0
                /\ cursor = Len(queue)
                /\ completed = QueueIds(Len(queue))]_vars

\* C10 witness: three transactions are queued; the creator's PullFunds and
\* a ForwardPercentage that found the contract without funds have been
\* handled, and the third has just been read.
C10_Witness ==
    /\ pc = "switch"
    /\ Len(queue) = 3
    /\ dispatched = <<1, 2, 3>>
    /\ completed = <<1, 2>>
    /\ queue[1].message[1] = PULL_FUNDS
    /\ queue[1].sender = Creator
    /\ queue[2].message[1] = FORWARD_PERCENTAGE
    /\ percentage = 20
    /\ balance[Contract][Native] = 0
    /\ balance[Recipient][Native] = 0

\* C11: once main runs it eventually returns to idle, whatever the queue
\* holds; it leaves the loop exactly on the sentinel 0 (from the while head,
\* with no transaction left, and never stays at the head once the sentinel
\* is due); and a faulted case re-enters main at the while head, so that the
\* transaction behind a faulted one is read next.
C11_ProcessingEndsInIdle ==
    /\ (pc # "idle") ~> (pc = "idle")
    /\ [][(pc # "idle" /\ pc' = "idle") <=> (pc = "loop" /\ getNextTx = 0)]_vars
    /\ [][(pc = "switch" /\ lastFault' # "none") => pc' = "loop"]_vars

\* C11 witness: main has returned to idle after a block of three
\* transactions whose second faulted (a forward without funds) and whose
\* third was handled after it.
C11_Witness ==
    /\ pc = "idle"
    /\ currentTx.txId = 0
    /\ cursor = 3
    /\ completed = <<1, 2, 3>>
    /\ queue[1].message[1] = PULL_FUNDS
    /\ queue[1].sender = Creator
    /\ queue[2].message[1] = FORWARD_PERCENTAGE
    /\ queue[2].amount = 100
    /\ queue[3].message[1] = SET_MAP_VALUE
    /\ percentage = 20
    /\ balance[Contract][Native] = 0
    /\ balance[Recipient][Native] = 0
    /\ kv # <<>>

RECURSIVE SumOver(_, _, _)
SumOver(bal, accounts, assetId) ==
    IF accounts = {} THEN 0
    ELSE LET a == CHOOSE x \in accounts : TRUE
         IN  bal[a][assetId] + SumOver(bal, accounts \ {a}, assetId)

Total(bal, assetId) == SumOver(bal, Accounts, assetId)

\* The ledger is bal after amount of assetId went from the contract to the
\* account to.
MovedOut(bal, to, assetId, amount) ==
    [bal EXCEPT ![Contract][assetId] = @ - amount, ![to][assetId] = @ + amount]

\* C12: the total of each asset over all accounts is the total at
\* deployment in every state, and what a handled transaction did to the
\* ledger is nothing (always so when it faulted) or one transfer from the
\* contract to one account.
C12_ValueConserved ==
    /\ \A s \in Assets : Total(balance, s) = Total(InitBalance, s)
    /\ JustDispatched =>
          /\ lastFault # "none" => balance = pre.balance
          /\ \/ balance = pre.balance
             \/ \E to \in Accounts \ {Contract} : \E s \in Assets :
                   balance = MovedOut(pre.balance, to, s, Gain(to, s))

\* C12 witness: attached amounts arrived, a forward paid the recipient and
\* the creator pulled the rest: every account's native balance differs from
\* its balance at deployment.
C12_Witness ==
    /\ JustDispatched
    /\ Code = PULL_FUNDS
    /\ Gain(Creator, Native) > 0
    /\ balance[Recipient][Native] > 0
    /\ \A a \in Accounts : balance[a][Native] # InitBalance[a][Native]


Requested == forwardAmount(Attached, pre.percentage)

\* C13: no balance of any account in any asset is ever negative; a
\* ForwardPercentage that asks the ledger for more than the contract holds
\* ends with the fault InsufficientFunds and moves nothing.
C13_NeverNegative ==
    /\ \A a \in Accounts : \A s \in Assets : balance[a][s] >= 0
    /\ ( /\ JustDispatched
         /\ Code = FORWARD_PERCENTAGE
         /\ pre.percentage # 0
         /\ Requested > pre.balance[Contract][Native] )
       => /\ lastFault = "InsufficientFunds"
          /\ balance = pre.balance

C13_Witness ==
    /\ JustDispatched
    /\ Code = FORWARD_PERCENTAGE
    /\ Requested > pre.balance[Contract][Native]
    /\ Requested > 0
    /\ lastFault = "InsufficientFunds"
    /\ balance[Contract][Native] = pre.balance[Contract][Native]
    /\ Gain(Recipient, Native) = 0


(***************************************************************************)
(* The ledger's transfer on its own: one transfer of the native asset from *)
(* the contract to the recipient, applied to ledgers in which the payer    *)
(* holds little or much and the receiver holds nothing or almost MaxLong,  *)
(* so that the credit can fail after the debit has succeeded.  The         *)
(* contract's own variables stay as the constructor leaves them.           *)
(***************************************************************************)
mainVars == <<percentage, currentTx, kv, balance, queue, cursor, pc, pre, dispatched,
              completed, lastFault>>

Constructed ==
    /\ percentage = 0
    /\ currentTx = [txId |-> 0, sender |-> 0, message |-> <<0, 0, 0, 0>>]
    /\ kv = <<>>
    /\ balance = InitBalance
    /\ queue = <<>>
    /\ cursor = 0
    /\ pc = "idle"
    /\ pre = [percentage |-> percentage, kv |-> kv, balance |-> balance]
    /\ dispatched = <<>>
    /\ completed = <<>>
    /\ lastFault = "none"

LedgerWith(payer, receiver) ==
    [InitBalance EXCEPT ![Contract][Native] = payer, ![Recipient][Native] = receiver]

TransferInputs ==
    [bal : {LedgerWith(p, r) : p \in {0, 50, 100, 200},
                               r \in {0, 5, MaxLong - 100, MaxLong - 10, MaxLong}},
     amount : {0, 10, 50, 100, 150},
     out : {Failed(InitBalance, "none")},
     done : {FALSE}]

TransferInit ==
    /\ Constructed
    /\ probe \in TransferInputs

ApplyTransfer ==
    /\ ~probe.done
    /\ probe' = [probe EXCEPT
                    !.out = transfer(probe.bal, Contract, Recipient, Native, probe.amount),
                    !.done = TRUE]
    /\ UNCHANGED mainVars

TransferNext == ApplyTransfer

TransferSpec == TransferInit /\ [][TransferNext]_vars

DebitOf == debit(probe.bal, Contract, Native, probe.amount)
CreditFailsAfterDebit ==
    /\ DebitOf.ok
    /\ ~credit(DebitOf.bal, Recipient, Native, probe.amount).ok

\* C14: a transfer whose credit step fails with Overflow after its debit
\* step succeeded reports the fault Overflow and returns the ledger it was
\* given: the balances of the payer, of the receiver and of every other
\* account are what they were before the transfer.
C14_TransferRollsBack ==
    (probe.done /\ CreditFailsAfterDebit)
    => /\ ~probe.out.ok
       /\ probe.out.err = "Overflow"
       /\ probe.out.bal = probe.bal
       /\ balanceOf(probe.out.bal, Contract, Native) = balanceOf(probe.bal, Contract, Native)
       /\ balanceOf(probe.out.bal, Recipient, Native) = balanceOf(probe.bal, Recipient, Native)

C14_Witness ==
    /\ probe.done
    /\ CreditFailsAfterDebit
    /\ probe.amount > 0
    /\ balanceOf(probe.bal, Contract, Native) >= probe.amount
    /\ probe.out.err = "Overflow"
    /\ balanceOf(probe.out.bal, Contract, Native) = balanceOf(probe.bal, Contract, Native)


Faults == {"InsufficientFunds", "Overflow"}

\* C15: a fault raised while a transaction is handled is InsufficientFunds
\* or Overflow and leaves the percentage, the map and every balance as they
\* were when the transaction was read; the fault ends that transaction only
\* (main is back at the head of its loop with the cursor behind the faulted
\* transaction); no transaction id is handed to the switch twice; and the
\* step after a fault reads the next transaction of the queue, or ends the
\* activation when the faulted one was the last.
C15_FaultAbortsOneTransaction ==
    /\ []((JustDispatched /\ lastFault # "none")
            => /\ lastFault \in Faults
               /\ StateUnchanged)
    /\ [](\A i, j \in 1..Len(dispatched) : dispatched[i] = dispatched[j] => i = j)
    /\ [][(pc = "switch" /\ lastFault' # "none")
             => /\ pc' = "loop"
                /\ cursor' = cursor
                /\ queue' = queue
                /\ currentTx' = currentTx
                /\ completed' = Append(completed, currentTx.txId)]_vars
    /\ [][(pc = "loop" /\ lastFault # "none")
             => IF cursor < Len(queue)
                THEN /\ pc' = "switch"
                     /\ cursor' = cursor + 1
                     /\ currentTx'.txId = queue[cursor + 1].txId
                     /\ currentTx'.txId # currentTx.txId
                ELSE pc' = "idle"]_vars

\* C15 witness: the creator set the percentage to 100, the ForwardPercentage
\* behind it asked for a negative amount and ended with a fault that moved
\* nothing, and the SetMapValue behind that one has been handled.
C15_Witness ==
    /\ pc = "loop"
    /\ cursor = 3
    /\ completed = <<1, 2, 3>>
    /\ queue[1].message[1] = UPDATE_PERCENTAGE
    /\ queue[2].message[1] = FORWARD_PERCENTAGE
    /\ queue[2].amount = OverAmount
    /\ queue[3].message[1] = SET_MAP_VALUE
    /\ percentage = 100
    /\ balance[Recipient][Native] = 0
    /\ balance[Contract][Native] = InitBalance[Contract][Native] + OverAmount
    /\ lastFault = "none"
    /\ kv # <<>>


(***************************************************************************)
(* forwardPercentage's arithmetic on its own (line 106): the amount handed *)
(* to sendAmount for every percentage updatePercentage can store and for   *)
(* attached amounts from 0 to MaxLong, those around MaxLong / 100 among    *)
(* them.                                                                   *)
(***************************************************************************)
ForwardAmounts ==
    {0, 1, 33, 100, MaxLong \div 100, OverAmount, BigAmount, MaxLong - 1, MaxLong}

ForwardAmountInputs ==
    [amount : ForwardAmounts, pct : 0..100, sent : {0}, done : {FALSE}]

ForwardAmountInit ==
    /\ Constructed
    /\ probe \in ForwardAmountInputs

ApplyForwardAmount ==
    /\ ~probe.done
    /\ probe' = [probe EXCEPT !.sent = forwardAmount(probe.amount, probe.pct),
                              !.done = TRUE]
    /\ UNCHANGED mainVars

ForwardAmountNext == ApplyForwardAmount

ForwardAmountSpec == ForwardAmountInit /\ [][ForwardAmountNext]_vars

\* C17 (as stated): for every percentage in 0..100 and every attached amount
\* in 0..MaxLong the amount forwardPercentage hands to sendAmount is at
\* least 0 and at most the attached amount, and it is the share
\* floor(amount * percentage / 100) of the unwrapped product.
C17_AsStated ==
    probe.done
    => /\ 0 <= probe.sent
       /\ probe.sent <= probe.amount
       /\ probe.sent = Floor(probe.amount * probe.pct, 100)


WrittenKey == <<MAP_KEY_EXAMPLE, currentTx.message[2]>>

\* C19: across the handling of one transaction the percentage changes only
\* in an UpdatePercentage of the creator; the map changes only in a
\* SetMapValue, and then in no entry other than (MAP_KEY_EXAMPLE, message
\* slot 1); ForwardPercentage and PullFunds leave the percentage and the map
\* as they were; UpdatePercentage and SetMapValue leave every balance as it
\* was.
C19_HandlersKeepToTheirPart ==
    JustDispatched
    => /\ percentage # pre.percentage
            => (Code = UPDATE_PERCENTAGE /\ currentTx.sender = getCreator)
       /\ kv # pre.kv
            => /\ Code = SET_MAP_VALUE
               /\ \A k \in ((DOMAIN kv) \cup (DOMAIN pre.kv)) \ {WrittenKey} :
                     /\ k \in DOMAIN kv
                     /\ k \in DOMAIN pre.kv
                     /\ kv[k] = pre.kv[k]
       /\ Code \in {FORWARD_PERCENTAGE, PULL_FUNDS}
            => (percentage = pre.percentage /\ kv = pre.kv)
       /\ Code \in {UPDATE_PERCENTAGE, SET_MAP_VALUE}
            => balance = pre.balance

\* C19 witness: after the creator's UpdatePercentage(33) and a SetMapValue at
\* key 1, a SetMapValue at key 2 has added its entry and left the entry at
\* key 1, the percentage and the balances alone.
C19_Witness ==
    /\ JustDispatched
    /\ Code = SET_MAP_VALUE
    /\ WrittenKey = <<MAP_KEY_EXAMPLE, 2>>
    /\ WrittenKey \notin DOMAIN pre.kv
    /\ kv[WrittenKey] = 7
    /\ <<MAP_KEY_EXAMPLE, 1>> \in DOMAIN pre.kv
    /\ kv[<<MAP_KEY_EXAMPLE, 1>>] = pre.kv[<<MAP_KEY_EXAMPLE, 1>>]
    /\ percentage = 33
    /\ pre.percentage = 33
    /\ balance = pre.balance

==========================================================================
